---- MODULE Spec2Model ----
(***************************************************************************)
(* A model of NSLibrary::CAnyMovable (AnyMovable.h): a type-erasing value  *)
(* container that owns at most one heap object through a                   *)
(* std::unique_ptr<IObjectStored> member, pIObject_.                       *)
(*                                                                         *)
(* Containers live in a fixed pool of slots; stored objects are heap       *)
(* objects with unique ids.  emplace is modelled in two steps because the  *)
(* code evaluates std::make_unique (which constructs the new object)       *)
(* before the unique_ptr move assignment (which releases the old one).     *)
(***************************************************************************)
EXTENDS Integers, Sequences, FiniteSets, TLC

\* ---- bounds ----
NumContainers == 3
MaxObjects == 4
MaxTsize == 3
NumValues == 3

Containers == 1..NumContainers
ObjIds == 1..MaxObjects
Types == {"T", "U"}

\* the null value of CStoredPtr
nullptr == 0

VARIABLES
  live,        \* live[c]: slot c currently holds a constructed CAnyMovable
  pIObject_,   \* pIObject_[c]: the object the container's unique_ptr points to
  alive,       \* heap objects constructed and not yet deleted
  delCount,    \* delCount[o]: how many times object o has been deleted
  typeOf,      \* typeOf[o]: the TObject of the CObjectStored<TObject> o
  nextId,      \* id the next allocation gets
  pc,          \* "idle", or "emplace_assign" between the two halves of emplace
  cur,         \* the container whose emplace is in progress
  tmp,         \* the temporary unique_ptr returned by make_unique in emplace
  ctorLog,     \* the TObject constructors the last operation ran, in order
  lastOp,      \* the operation that produced the current state
  Object,      \* array model: the caller's array (source of the move)
  Object_,     \* array model: CObjectKeeper<T[Tsize]>::Object_
  elemKind,    \* array model: how the element type behaves when moved from
  arrRead      \* array model: last element read back through Object()

cvars == <<live, pIObject_, alive, delCount, typeOf, nextId, pc, cur, tmp, ctorLog, lastOp>>
avars == <<Object, Object_, elemKind, arrRead>>
vars == <<live, pIObject_, alive, delCount, typeOf, nextId, pc, cur, tmp, ctorLog, lastOp, Object, Object_, elemKind, arrRead>>

\* old: what the target container pointed to before the operation
Op(o, c, s, ok, old) == [op |-> o, c |-> c, s |-> s, ok |-> ok, old |-> old]

\* ---- std::unique_ptr / heap primitives used by the container ----

\* delete p (no-op on nullptr): the set of live objects afterwards
AliveAfterDelete(al, p) == al \ {p}

\* delete p (no-op on nullptr): the deletion counts afterwards
CountAfterDelete(dc, p) == IF p = nullptr THEN dc ELSE [dc EXCEPT ![p] = @ + 1]

\* delete p (no-op on nullptr): a deleted object has no type any more
TypeAfterDelete(ty, p) == IF p = nullptr THEN ty ELSE [ty EXCEPT ![p] = "none"]

\* bool isDefined() const
isDefined(c) == pIObject_[c] # nullptr

\* operator->(): the raw pointer, unchecked
Arrow(c) == pIObject_[c]

\* A mutation of CObjectKeeper: build a temporary TObject from the arguments
\* and move it into Object_.
CObjectKeeper_ViaTemporary(argKind) ==
  IF argKind = "rvalue" THEN <<"move">>
  ELSE IF argKind = "lvalue" THEN <<"copy">>
  ELSE <<"args", "move">>

\* CObjectKeeper<TObject>: the TObject constructors run to build Object_ from
\* what was passed.  An rvalue TObject selects CObjectKeeper(TObject&&), which
\* move-constructs; anything else selects the forwarding constructor, which
\* passes the arguments straight to TObject's constructor (a copy for an
\* lvalue TObject).
CObjectKeeper(argKind) ==
  IF argKind = "rvalue" THEN <<"move">>
  ELSE IF argKind = "lvalue" THEN <<"copy">>
  ELSE <<"args">>

\* std::make_unique<CObjectStored<t>>(std::forward(...)) succeeded
make_unique(t, argKind) ==
  /\ nextId <= MaxObjects
  /\ alive' = alive \cup {nextId}
  /\ typeOf' = [typeOf EXCEPT ![nextId] = t]
  /\ nextId' = nextId + 1
  /\ ctorLog' = CObjectKeeper(argKind)
  /\ delCount' = delCount

\* ---- the container's operations ----

\* CAnyMovable() = default
DefaultConstruct(c) ==
  /\ pc = "idle"
  /\ ~live[c]
  /\ live' = [live EXCEPT ![c] = TRUE]
  /\ pIObject_' = [pIObject_ EXCEPT ![c] = nullptr]
  /\ lastOp' = Op("default", c, 0, TRUE, nullptr)
  /\ ctorLog' = <<>>
  /\ UNCHANGED <<alive, delCount, typeOf, nextId, pc, cur, tmp>>
  /\ UNCHANGED avars

\* CAnyMovable(T&& Object), construction succeeded; rv: Object is an rvalue
ValueConstruct(c, t, rv) ==
  /\ pc = "idle"
  /\ ~live[c]
  /\ make_unique(t, IF rv THEN "rvalue" ELSE "lvalue")
  /\ live' = [live EXCEPT ![c] = TRUE]
  /\ pIObject_' = [pIObject_ EXCEPT ![c] = nextId]
  /\ lastOp' = Op("value", c, 0, TRUE, nullptr)
  /\ UNCHANGED <<pc, cur, tmp>>
  /\ UNCHANGED avars

\* CAnyMovable(T&& Object), make_unique threw: no container comes to exist
ValueConstructThrow(c, t, rv) ==
  /\ pc = "idle"
  /\ ~live[c]
  /\ lastOp' = Op("value", c, 0, FALSE, nullptr)
  /\ ctorLog' = <<>>
  /\ UNCHANGED <<live, pIObject_, alive, delCount, typeOf, nextId, pc, cur, tmp>>
  /\ UNCHANGED avars

\* CAnyMovable(std::in_place_type_t<T>, TArgs&&...), construction succeeded
InPlaceConstruct(c, t) ==
  /\ pc = "idle"
  /\ ~live[c]
  /\ make_unique(t, "args")
  /\ live' = [live EXCEPT ![c] = TRUE]
  /\ pIObject_' = [pIObject_ EXCEPT ![c] = nextId]
  /\ lastOp' = Op("in_place", c, 0, TRUE, nullptr)
  /\ UNCHANGED <<pc, cur, tmp>>
  /\ UNCHANGED avars

\* CAnyMovable(std::in_place_type_t<T>, TArgs&&...), make_unique threw
InPlaceConstructThrow(c, t) ==
  /\ pc = "idle"
  /\ ~live[c]
  /\ lastOp' = Op("in_place", c, 0, FALSE, nullptr)
  /\ ctorLog' = <<>>
  /\ UNCHANGED <<live, pIObject_, alive, delCount, typeOf, nextId, pc, cur, tmp>>
  /\ UNCHANGED avars

\* A mutation of the move constructor: the pointer is copied, not transferred.
MoveConstruct_Copy(d, s) ==
  /\ pc = "idle"
  /\ ~live[d]
  /\ live[s]
  /\ live' = [live EXCEPT ![d] = TRUE]
  /\ pIObject_' = [pIObject_ EXCEPT ![d] = pIObject_[s]]
  /\ lastOp' = Op("move_construct", d, s, TRUE, nullptr)
  /\ ctorLog' = <<>>
  /\ UNCHANGED <<alive, delCount, typeOf, nextId, pc, cur, tmp>>
  /\ UNCHANGED avars

\* CAnyMovable(CAnyMovable&& Other) noexcept = default:
\* pIObject_(Other.pIObject_.release())
MoveConstruct(d, s) ==
  /\ pc = "idle"
  /\ ~live[d]
  /\ live[s]
  /\ live' = [live EXCEPT ![d] = TRUE]
  /\ pIObject_' = [pIObject_ EXCEPT ![s] = nullptr, ![d] = pIObject_[s]]
  /\ lastOp' = Op("move_construct", d, s, TRUE, nullptr)
  /\ ctorLog' = <<>>
  /\ UNCHANGED <<alive, delCount, typeOf, nextId, pc, cur, tmp>>
  /\ UNCHANGED avars

\* A mutation of move assignment: the destination's old object is not deleted.
MoveAssign_Leak(d, s) ==
  /\ pc = "idle"
  /\ live[d]
  /\ live[s]
  /\ pIObject_' = [[pIObject_ EXCEPT ![s] = nullptr] EXCEPT ![d] = pIObject_[s]]
  /\ lastOp' = Op("move_assign", d, s, TRUE, pIObject_[d])
  /\ ctorLog' = <<>>
  /\ UNCHANGED <<live, alive, delCount, typeOf, nextId, pc, cur, tmp>>
  /\ UNCHANGED avars

\* CAnyMovable& operator=(CAnyMovable&& Other) noexcept = default:
\* pIObject_.reset(Other.pIObject_.release()).  release() nulls the source
\* first, so on self-assignment reset() sees a null old pointer, deletes
\* nothing and stores the pointer back.
MoveAssign(d, s) ==
  /\ pc = "idle"
  /\ live[d]
  /\ live[s]
  /\ LET p        == pIObject_[s]
         released == [pIObject_ EXCEPT ![s] = nullptr]
         old      == released[d]
     IN /\ pIObject_' = [released EXCEPT ![d] = p]
        /\ alive' = AliveAfterDelete(alive, old)
        /\ delCount' = CountAfterDelete(delCount, old)
        /\ typeOf' = TypeAfterDelete(typeOf, old)
  /\ lastOp' = Op("move_assign", d, s, TRUE, pIObject_[d])
  /\ ctorLog' = <<>>
  /\ UNCHANGED <<live, nextId, pc, cur, tmp>>
  /\ UNCHANGED avars

\* A mutation of emplace: the held object is released first and the new one
\* is constructed afterwards.
EmplaceConstruct_ReleaseFirst(c, t) ==
  /\ pc = "idle"
  /\ live[c]
  /\ nextId <= MaxObjects
  /\ pIObject_' = [pIObject_ EXCEPT ![c] = nullptr]
  /\ alive' = AliveAfterDelete(alive, pIObject_[c]) \cup {nextId}
  /\ delCount' = CountAfterDelete(delCount, pIObject_[c])
  /\ typeOf' = [TypeAfterDelete(typeOf, pIObject_[c]) EXCEPT ![nextId] = t]
  /\ nextId' = nextId + 1
  /\ ctorLog' = CObjectKeeper("args")
  /\ tmp' = nextId
  /\ cur' = c
  /\ pc' = "emplace_assign"
  /\ lastOp' = Op("emplace_construct", c, 0, TRUE, pIObject_[c])
  /\ UNCHANGED live
  /\ UNCHANGED avars

\* emplace<TObject>(args...), first half: std::make_unique built the new
\* object; it is owned by the temporary unique_ptr, pIObject_ is untouched
EmplaceConstruct(c, t) ==
  /\ pc = "idle"
  /\ live[c]
  /\ make_unique(t, "args")
  /\ tmp' = nextId
  /\ cur' = c
  /\ pc' = "emplace_assign"
  /\ lastOp' = Op("emplace_construct", c, 0, TRUE, pIObject_[c])
  /\ UNCHANGED <<live, pIObject_>>
  /\ UNCHANGED avars

\* A mutation of emplace: the held object is released before the new one is
\* constructed, so a throwing construction leaves the container empty.
EmplaceThrow_ReleaseFirst(c, t) ==
  /\ pc = "idle"
  /\ live[c]
  /\ pIObject_' = [pIObject_ EXCEPT ![c] = nullptr]
  /\ alive' = AliveAfterDelete(alive, pIObject_[c])
  /\ delCount' = CountAfterDelete(delCount, pIObject_[c])
  /\ typeOf' = TypeAfterDelete(typeOf, pIObject_[c])
  /\ lastOp' = Op("emplace", c, 0, FALSE, pIObject_[c])
  /\ ctorLog' = <<>>
  /\ UNCHANGED <<live, nextId, pc, cur, tmp>>
  /\ UNCHANGED avars

\* emplace<TObject>(args...), std::make_unique threw: the assignment to
\* pIObject_ is never reached
EmplaceThrow(c, t) ==
  /\ pc = "idle"
  /\ live[c]
  /\ lastOp' = Op("emplace", c, 0, FALSE, pIObject_[c])
  /\ ctorLog' = <<>>
  /\ UNCHANGED <<live, pIObject_, alive, delCount, typeOf, nextId, pc, cur, tmp>>
  /\ UNCHANGED avars

\* emplace<TObject>(args...), second half: pIObject_ = std::move(temporary),
\* i.e. pIObject_.reset(temporary.release()), which deletes the old object
EmplaceAssign ==
  /\ pc = "emplace_assign"
  /\ LET old == pIObject_[cur]
     IN /\ pIObject_' = [pIObject_ EXCEPT ![cur] = tmp]
        /\ alive' = AliveAfterDelete(alive, old)
        /\ delCount' = CountAfterDelete(delCount, old)
        /\ typeOf' = TypeAfterDelete(typeOf, old)
  /\ tmp' = nullptr
  /\ cur' = 0
  /\ pc' = "idle"
  /\ lastOp' = Op("emplace", cur, 0, TRUE, pIObject_[cur])
  /\ ctorLog' = <<>>
  /\ UNCHANGED <<live, nextId>>
  /\ UNCHANGED avars

\* A mutation of clear(): the object is deleted but the pointer is kept.
ClearState_Dangling(st, c) ==
  [p  |-> st.p,
   al |-> AliveAfterDelete(st.al, st.p[c]),
   dc |-> CountAfterDelete(st.dc, st.p[c]),
   ty |-> TypeAfterDelete(st.ty, st.p[c])]

\* the effect of pIObject_.reset() on (pointers, live objects, deletion
\* counts, object types)
ClearState(st, c) ==
  [p  |-> [st.p EXCEPT ![c] = nullptr],
   al |-> AliveAfterDelete(st.al, st.p[c]),
   dc |-> CountAfterDelete(st.dc, st.p[c]),
   ty |-> TypeAfterDelete(st.ty, st.p[c])]

\* the part of the state clear() acts on
HeapState == [p |-> pIObject_, al |-> alive, dc |-> delCount, ty |-> typeOf]

\* void clear()
clear(c) ==
  /\ pc = "idle"
  /\ live[c]
  /\ LET st == ClearState(HeapState, c)
     IN /\ pIObject_' = st.p
        /\ alive' = st.al
        /\ delCount' = st.dc
        /\ typeOf' = st.ty
  /\ lastOp' = Op("clear", c, 0, TRUE, pIObject_[c])
  /\ ctorLog' = <<>>
  /\ UNCHANGED <<live, nextId, pc, cur, tmp>>
  /\ UNCHANGED avars

\* A mutation of the destructor: the held object is not deleted.
Destroy_Leak(c) ==
  /\ pc = "idle"
  /\ live[c]
  /\ live' = [live EXCEPT ![c] = FALSE]
  /\ pIObject_' = [pIObject_ EXCEPT ![c] = nullptr]
  /\ lastOp' = Op("destroy", c, 0, TRUE, pIObject_[c])
  /\ ctorLog' = <<>>
  /\ UNCHANGED <<alive, delCount, typeOf, nextId, pc, cur, tmp>>
  /\ UNCHANGED avars

\* ~CAnyMovable() = default: the unique_ptr member deletes what it holds
Destroy(c) ==
  /\ pc = "idle"
  /\ live[c]
  /\ live' = [live EXCEPT ![c] = FALSE]
  /\ pIObject_' = [pIObject_ EXCEPT ![c] = nullptr]
  /\ alive' = AliveAfterDelete(alive, pIObject_[c])
  /\ delCount' = CountAfterDelete(delCount, pIObject_[c])
  /\ typeOf' = TypeAfterDelete(typeOf, pIObject_[c])
  /\ lastOp' = Op("destroy", c, 0, TRUE, pIObject_[c])
  /\ ctorLog' = <<>>
  /\ UNCHANGED <<nextId, pc, cur, tmp>>
  /\ UNCHANGED avars

\* a call of isDefined(): reads only
IsDefinedCall(c) ==
  /\ pc = "idle"
  /\ live[c]
  /\ lastOp' = Op("isDefined", c, 0, isDefined(c), pIObject_[c])
  /\ ctorLog' = <<>>
  /\ UNCHANGED <<live, pIObject_, alive, delCount, typeOf, nextId, pc, cur, tmp>>
  /\ UNCHANGED avars

\* a call of operator->(): returns pIObject_.get() unchecked, reads only
Access(c) ==
  /\ pc = "idle"
  /\ live[c]
  /\ lastOp' = Op("access", c, 0, TRUE, Arrow(c))
  /\ ctorLog' = <<>>
  /\ UNCHANGED <<live, pIObject_, alive, delCount, typeOf, nextId, pc, cur, tmp>>
  /\ UNCHANGED avars

\* ---- CObjectKeeper<T[Tsize]>: the holder of a fixed-size array ----

\* element values; MovedFrom is what a move-only element is left as
Values == 1..NumValues
MovedFrom == 0

\* arrays are indexed from 0, as in the code
Arrays == UNION {[0..(n - 1) -> Values] : n \in 1..MaxTsize}
NoArray == [k \in {} |-> MovedFrom]
Tsize(a) == Cardinality(DOMAIN a)

\* A mutation of the index pack: the indices run from Tsize-1 down to 0.
make_integer_sequence_Reversed(n) == [k \in 1..n |-> n - k]

\* std::make_integer_sequence<size_t, Tsize>: the pack 0, 1, ..., Tsize-1
make_integer_sequence(n) == [k \in 1..n |-> k - 1]

\* std::move(Object[i]) as an initializer: the value the new element gets
MovedValue(a, i) == a[i]

\* the element left behind by std::move(Object[i])
LeftBehind(kind, a, i) == IF kind = "handle" THEN MovedFrom ELSE a[i]

\* CObjectKeeper(CObjectType&& Object, std::integer_sequence<size_t, TIndex...>):
\* Object_ { std::move(Object[TIndex])... }; the k-th initializer of the
\* braced list initializes Object_[k]
KeeperArray(a, TIndex) == [k \in 0..(Len(TIndex) - 1) |-> MovedValue(a, TIndex[k + 1])]

\* the caller's array after every Object[TIndex] has been moved from
SourceAfter(kind, a, TIndex) ==
  [i \in DOMAIN a |-> IF \E k \in DOMAIN TIndex : TIndex[k] = i
                      THEN LeftBehind(kind, a, i) ELSE a[i]]

\* CObjectKeeper(CObjectType&& Object) noexcept, delegating to the indexed
\* constructor with make_integer_sequence<size_t, Tsize>
StoreArray ==
  /\ Object_ = NoArray
  /\ Object # NoArray
  /\ LET TIndex == make_integer_sequence(Tsize(Object))
     IN /\ Object_' = KeeperArray(Object, TIndex)
        /\ Object' = SourceAfter(elemKind, Object, TIndex)
  /\ arrRead' = [i |-> -1, v |-> MovedFrom]
  /\ UNCHANGED elemKind
  /\ UNCHANGED cvars

\* const CObjectType& Object() const, read at index i by the implementation
ReadElement(i) ==
  /\ Object_ # NoArray
  /\ i \in DOMAIN Object_
  /\ arrRead' = [i |-> i, v |-> Object_[i]]
  /\ UNCHANGED <<Object, Object_, elemKind>>
  /\ UNCHANGED cvars

\* ~CObjectKeeper() override = default: the stored array is destroyed
ReleaseArray ==
  /\ Object_ # NoArray
  /\ Object_' = NoArray
  /\ arrRead' = [i |-> -1, v |-> MovedFrom]
  /\ UNCHANGED <<Object, elemKind>>
  /\ UNCHANGED cvars

\* ---- specifications ----

InitContainers ==
  /\ live = [c \in Containers |-> FALSE]
  /\ pIObject_ = [c \in Containers |-> nullptr]
  /\ alive = {}
  /\ delCount = [o \in ObjIds |-> 0]
  /\ typeOf = [o \in ObjIds |-> "none"]
  /\ nextId = 1
  /\ pc = "idle"
  /\ cur = 0
  /\ tmp = nullptr
  /\ ctorLog = <<>>
  /\ lastOp = Op("init", 0, 0, TRUE, nullptr)

Init ==
  /\ InitContainers
  /\ Object = NoArray
  /\ Object_ = NoArray
  /\ elemKind = "trivial"
  /\ arrRead = [i |-> -1, v |-> MovedFrom]

Next ==
  \/ \E c \in Containers : DefaultConstruct(c)
  \/ \E c \in Containers, t \in Types, rv \in BOOLEAN : ValueConstruct(c, t, rv)
  \/ \E c \in Containers, t \in Types, rv \in BOOLEAN : ValueConstructThrow(c, t, rv)
  \/ \E c \in Containers, t \in Types : InPlaceConstruct(c, t)
  \/ \E c \in Containers, t \in Types : InPlaceConstructThrow(c, t)
  \/ \E d \in Containers, s \in Containers : MoveConstruct(d, s)
  \/ \E d \in Containers, s \in Containers : MoveAssign(d, s)
  \/ \E c \in Containers, t \in Types : EmplaceConstruct(c, t)
  \/ \E c \in Containers, t \in Types : EmplaceThrow(c, t)
  \/ EmplaceAssign
  \/ \E c \in Containers : clear(c)
  \/ \E c \in Containers : Destroy(c)
  \/ \E c \in Containers : IsDefinedCall(c)
  \/ \E c \in Containers : Access(c)

Spec == Init /\ [][Next]_vars

\* the array holder on its own: any array of any element kind is stored,
\* read back and released
InitArray ==
  /\ InitContainers
  /\ Object \in Arrays
  /\ Object_ = NoArray
  /\ elemKind \in {"trivial", "handle"}
  /\ arrRead = [i |-> -1, v |-> MovedFrom]

NextArray ==
  \/ StoreArray
  \/ \E i \in 0..(MaxTsize - 1) : ReadElement(i)
  \/ ReleaseArray

SpecArray == InitArray /\ [][NextArray]_vars

\* ---- properties ----

LiveContainers == {c \in Containers : live[c]}
Owners(o) == {c \in LiveContainers : pIObject_[c] = o}
MoveOps == {"move_construct", "move_assign"}

\* C1 as stated: when emplace<T>(args...) is called on a container that holds
\* an object and the construction of the new T fails, the container is empty
\* afterwards.
C1_FailedEmplaceEmpties ==
  [][(lastOp'.op = "emplace" /\ ~lastOp'.ok /\ pIObject_[lastOp'.c] # nullptr)
       => pIObject_'[lastOp'.c] = nullptr]_vars

\* C1 amended: when emplace<T>(args...) is called and the construction of the
\* new T fails, the container is left exactly as it was: it still holds the
\* previously held object, which stays alive, and nothing is released.
C1_FailedEmplaceKeepsOld ==
  [][(lastOp'.op = "emplace" /\ ~lastOp'.ok)
       => /\ pIObject_' = pIObject_
          /\ alive' = alive
          /\ delCount' = delCount
          /\ (pIObject_[lastOp'.c] # nullptr => pIObject_'[lastOp'.c] \in alive')]_vars

C1_Witness ==
  /\ lastOp.op = "emplace"
  /\ ~lastOp.ok
  /\ lastOp.old # nullptr
  /\ pIObject_[lastOp.c] = lastOp.old
  /\ lastOp.old \in alive

\* C2 as stated: during emplace<T>(args...) on a container holding a U object,
\* U has been released by the time the new T has been constructed, so the old
\* and the new object are never alive together.
C2_OldReleasedBeforeNew ==
  pc = "emplace_assign" => ~(pIObject_[cur] \in alive /\ tmp \in alive)

\* C2 amended: during emplace<T>(args...) on a container holding a U object,
\* the new T is constructed first, while the container still holds U (both
\* are alive then, T owned by the temporary returned by make_unique); U is
\* released exactly once, in the assignment step that makes the container
\* point to T, and the container never points to more than one object.
C2_OldReleasedAfterNew ==
  /\ [](pc = "emplace_assign"
         => /\ tmp \in alive
            /\ pIObject_[cur] # tmp
            /\ pIObject_[cur] = lastOp.old
            /\ (pIObject_[cur] # nullptr => pIObject_[cur] \in alive))
  /\ [][/\ (pc = "idle" /\ pc' = "emplace_assign")
            => /\ pIObject_' = pIObject_
               /\ delCount' = delCount
               /\ alive' = alive \cup {tmp'}
               /\ tmp' \notin alive
        /\ (pc = "emplace_assign" /\ pc' = "idle")
            => /\ pIObject_' = [pIObject_ EXCEPT ![cur] = tmp]
               /\ alive' = alive \ {pIObject_[cur]}
               /\ (pIObject_[cur] # nullptr
                     => delCount' = [delCount EXCEPT ![pIObject_[cur]] = @ + 1])]_vars

C2_Witness ==
  /\ pc = "emplace_assign"
  /\ pIObject_[cur] \in alive
  /\ tmp \in alive
  /\ typeOf[pIObject_[cur]] = "U"
  /\ typeOf[tmp] = "T"

\* C3 as stated: after move construction or move assignment with source s and
\* destination d, s is empty, d owns exactly the object s owned before, and
\* any object d held before a move assignment has been released.
C3_MoveTransfers ==
  [][(lastOp'.op \in MoveOps)
       => LET d == lastOp'.c
              s == lastOp'.s
          IN /\ pIObject_'[s] = nullptr
             /\ pIObject_'[d] = pIObject_[s]
             /\ (pIObject_[s] # nullptr => pIObject_'[d] \in alive')
             /\ (lastOp'.op = "move_assign" /\ pIObject_[d] # nullptr
                   => pIObject_[d] \notin alive')]_vars

\* C3 amended: after move construction, or move assignment between two
\* different containers s and d, s is empty, d owns exactly the object s owned
\* before (d is non-empty whenever s was), and any object d held before a
\* move assignment has been released; a move assignment of a container to
\* itself leaves it unchanged and releases nothing.
C3_MoveTransfersDistinct ==
  [][(lastOp'.op \in MoveOps)
       => LET d == lastOp'.c
              s == lastOp'.s
          IN IF s # d
             THEN /\ pIObject_'[s] = nullptr
                  /\ pIObject_'[d] = pIObject_[s]
                  /\ (pIObject_[s] # nullptr => pIObject_'[d] \in alive')
                  /\ (lastOp'.op = "move_assign" /\ pIObject_[d] # nullptr
                        => /\ pIObject_[d] \notin alive'
                           /\ delCount'[pIObject_[d]] = delCount[pIObject_[d]] + 1)
             ELSE /\ pIObject_' = pIObject_
                  /\ alive' = alive
                  /\ delCount' = delCount]_vars

C3_Witness ==
  /\ lastOp.op = "move_assign"
  /\ lastOp.c # lastOp.s
  /\ lastOp.old # nullptr
  /\ delCount[lastOp.old] = 1
  /\ pIObject_[lastOp.c] \in alive
  /\ pIObject_[lastOp.s] = nullptr

\* a live container went from holding an object to empty in this step
BecameEmpty(c) ==
  /\ live[c]
  /\ live'[c]
  /\ pIObject_[c] # nullptr
  /\ pIObject_'[c] = nullptr

\* C4 as stated: a container that holds an object becomes empty only through
\* clear() or through being the source of a move.
C4_EmptyOnlyByClearOrMoveOut ==
  [][\A c \in Containers :
       BecameEmpty(c)
         => \/ (lastOp'.op = "clear" /\ lastOp'.c = c)
            \/ (lastOp'.op \in MoveOps /\ lastOp'.s = c)]_vars

\* C4 amended: a container that holds an object becomes empty only through
\* clear(), through being the source of a move, or through being the
\* destination of a move assignment whose source is an empty container.
C4_EmptyOnlyByClearOrMove ==
  [][\A c \in Containers :
       BecameEmpty(c)
         => \/ (lastOp'.op = "clear" /\ lastOp'.c = c)
            \/ (lastOp'.op \in MoveOps /\ lastOp'.s = c /\ lastOp'.c # c)
            \/ /\ lastOp'.op = "move_assign"
               /\ lastOp'.c = c
               /\ lastOp'.s # c
               /\ pIObject_[lastOp'.s] = nullptr]_vars

C4_Witness ==
  /\ lastOp.op = "move_assign"
  /\ lastOp.c # lastOp.s
  /\ lastOp.old # nullptr
  /\ pIObject_[lastOp.c] = nullptr
  /\ pIObject_[lastOp.s] = nullptr

\* C5: in every reachable state no two containers reference the same stored
\* object, no container references the object a running emplace has just
\* built, and between operations every live stored object is owned by exactly
\* one container.
C5_ExclusiveOwnership ==
  /\ \A c1 \in LiveContainers, c2 \in LiveContainers :
       (c1 # c2 /\ pIObject_[c1] # nullptr) => pIObject_[c1] # pIObject_[c2]
  /\ \A o \in alive : Cardinality(Owners(o)) + (IF tmp = o THEN 1 ELSE 0) = 1
  /\ (pc = "idle" => \A o \in alive : Cardinality(Owners(o)) = 1)

C5_Witness ==
  /\ lastOp.op \in MoveOps
  /\ pIObject_[lastOp.c] \in alive
  /\ \E c \in LiveContainers : c # lastOp.c /\ pIObject_[c] \in alive

\* C6: every stored object allocated by a construct or emplace is released
\* exactly once, at a step where its owning container is cleared, reassigned
\* by move, replaced by emplace or destroyed; it is never released twice, and
\* once all containers are destroyed no stored object remains alive.
C6_ReleasedExactlyOnce ==
  /\ [](\A o \in ObjIds :
          /\ delCount[o] <= 1
          /\ (o \in alive => (delCount[o] = 0 /\ o < nextId))
          /\ (o < nextId /\ o \notin alive => delCount[o] = 1)
          /\ (o >= nextId => delCount[o] = 0))
  /\ []((pc = "idle" /\ LiveContainers = {}) => alive = {})
  /\ [][\A o \in ObjIds :
          delCount'[o] # delCount[o]
            => /\ delCount'[o] = delCount[o] + 1
               /\ o \in alive
               /\ o \notin alive'
               /\ lastOp'.op \in {"clear", "move_assign", "emplace", "destroy"}
               /\ lastOp'.ok
               /\ live[lastOp'.c]
               /\ pIObject_[lastOp'.c] = o
               /\ (live'[lastOp'.c] => pIObject_'[lastOp'.c] # o)]_vars

C6_Witness ==
  /\ pc = "idle"
  /\ LiveContainers = {}
  /\ nextId > 2
  /\ \A o \in ObjIds : o < nextId => delCount[o] = 1
  /\ lastOp.op = "destroy"
  /\ lastOp.old # nullptr

\* C7: isDefined() is true exactly when the container owns a live object; it
\* is false for a default-constructed container and true after every
\* successful construction from a value, tagged in-place construction or
\* emplace, whatever the container held before; the container then holds the
\* newly built object and nothing else.
C7_IsDefinedIffOwns ==
  /\ [](\A c \in LiveContainers : isDefined(c) <=> pIObject_[c] \in alive)
  /\ [][/\ (lastOp'.op = "default" => pIObject_'[lastOp'.c] = nullptr)
        /\ (lastOp'.op \in {"value", "in_place"} /\ lastOp'.ok)
             => /\ live'[lastOp'.c]
                /\ pIObject_'[lastOp'.c] # nullptr
                /\ pIObject_'[lastOp'.c] = nextId
                /\ nextId \in alive' \ alive
        /\ (lastOp'.op = "emplace" /\ lastOp'.ok)
             => /\ pIObject_'[lastOp'.c] # nullptr
                /\ pIObject_'[lastOp'.c] = tmp
                /\ tmp \in alive'
                /\ pIObject_[lastOp'.c] \notin alive']_vars

C7_Witness ==
  /\ lastOp.op = "emplace"
  /\ lastOp.ok
  /\ lastOp.old # nullptr
  /\ isDefined(lastOp.c)
  /\ pIObject_[lastOp.c] # lastOp.old

\* C8: clear() on a non-empty container releases the held object and makes
\* isDefined() false; clear() on an empty container changes nothing; clear
\* followed by clear equals a single clear.
C8_ClearIdempotent ==
  /\ [][lastOp'.op = "clear"
          => LET c == lastOp'.c
                 old == pIObject_[c]
             IN /\ pIObject_' = [pIObject_ EXCEPT ![c] = nullptr]
                /\ (old # nullptr
                      => /\ alive' = alive \ {old}
                         /\ delCount' = [delCount EXCEPT ![old] = @ + 1])
                /\ (old = nullptr
                      => /\ pIObject_' = pIObject_
                         /\ alive' = alive
                         /\ delCount' = delCount)]_vars
  /\ [](\A c \in LiveContainers :
          ClearState(ClearState(HeapState, c), c) = ClearState(HeapState, c))

C8_Witness ==
  /\ lastOp.op = "clear"
  /\ lastOp.old # nullptr
  /\ ~isDefined(lastOp.c)
  /\ delCount[lastOp.old] = 1

\* C9: storing a fixed-size array a0..a(n-1) by move stores an array of the
\* same length whose element at every index i equals a_i, and reading index i
\* back yields a_i.
C9_ArrayElementwise ==
  /\ [][(Object_ = NoArray /\ Object_' # NoArray)
          => /\ DOMAIN Object_' = DOMAIN Object
             /\ \A i \in DOMAIN Object : Object_'[i] = Object[i]]_vars
  /\ [](arrRead.i >= 0 => (arrRead.i \in DOMAIN Object_ /\ arrRead.v = Object_[arrRead.i]))

C9_Witness ==
  /\ Object_ # NoArray
  /\ Tsize(Object_) >= 2
  /\ Object_[0] # Object_[1]
  /\ elemKind = "handle"
  /\ Object[0] = MovedFrom
  /\ arrRead.i = 1
  /\ arrRead.v = Object_[1]

\* C10: tagged in-place construction and emplace<T>(args...) construct exactly
\* one instance of T, directly from the arguments, and that instance is the
\* one that ends up stored: no T is copied or moved on the way.
C10_OneConstruction ==
  /\ [][/\ (lastOp'.op = "in_place" /\ lastOp'.ok)
             => /\ ctorLog' = <<"args">>
                /\ alive' \ alive = {pIObject_'[lastOp'.c]}
        /\ (pc = "idle" /\ pc' = "emplace_assign")
             => /\ ctorLog' = <<"args">>
                /\ alive' \ alive = {tmp'}
        /\ (lastOp'.op = "emplace" /\ lastOp'.ok)
             => /\ ctorLog' = <<>>
                /\ pIObject_'[lastOp'.c] = tmp
                /\ alive' \subseteq alive]_vars
  /\ [](pc = "emplace_assign" => ctorLog = <<"args">>)

C10_Witness ==
  /\ lastOp.op = "emplace"
  /\ lastOp.ok
  /\ lastOp.old # nullptr
  /\ typeOf[pIObject_[lastOp.c]] = "T"
  /\ pIObject_[lastOp.c] \in alive
  /\ pIObject_[lastOp.c] = nextId - 1

====
